---- MODULE Spec2Model ----
(***************************************************************************)
(* StackExchangeParser.__iter__ (src/separser/stackExchangeParser.py) as a *)
(* state machine: the generator that walks the element stream of a         *)
(* StackExchange dump, keeps the pending-parent table parent_post_attribs, *)
(* filters rows by tag and assembles the records (Spec, and ExampleSpec    *)
(* for the dump of the documented example).  StackExchangeSpec is the      *)
(* earlier class StackExchange (src/stackExchange.py), and ParseTagsSpec   *)
(* applies _parse_tags to encoded tag lists.                               *)
(*                                                                         *)
(* Python values are modelled as records so that values of different       *)
(* Python types can be compared: None is [none |-> TRUE], a str is         *)
(* [s |-> <<characters>>], a list of str is [l |-> <<strings>>] and an     *)
(* (a, b) tuple is [t |-> <<a, b>>].  A character is a one-character       *)
(* string; "\n" is the newline.                                            *)
(***************************************************************************)
EXTENDS Integers, Sequences, FiniteSets, TLC

\* ------------------------------------------------------------------ bounds
MaxRows == 3          \* longest row stream drawn by Init (root element not counted)

\* ------------------------------------------------------- Python values
None == [none |-> TRUE]
Str(cs) == [s |-> cs]
List(xs) == [l |-> xs]
Tuple(a, b) == [t |-> <<a, b>>]

IsNone(x) == x = None
IsStr(x) == "s" \in DOMAIN x
IsList(x) == "l" \in DOMAIN x

\* Python truth value of None, a str or a list (used by `if title and body`,
\* `not tags`, `if parent_tags`).
Truthy(x) ==
    IF IsNone(x) THEN FALSE
    ELSE IF IsStr(x) THEN x.s # <<>>
    ELSE IF IsList(x) THEN x.l # <<>>
    ELSE TRUE

\* atb.get(k, default): atb is the attribute mapping of an element, a function
\* from attribute names to character sequences.
Get(atb, k, default) == IF k \in DOMAIN atb THEN Str(atb[k]) ELSE default

NL == "\n"
Letters == {"a", "b", "p", "x", "z", "T", "E", "L", "C", "r"}
Digits == <<"0", "1", "2", "3", "4", "5", "6", "7", "8", "9">>

\* str % int (line 580 applies % to the event name): a str left operand is
\* printf-style formatting, which raises TypeError when the argument is not
\* consumed by a conversion specifier; the event names contain none.
EventNames == {"start", "end"}
PercentRaises(ev) == ev \in EventNames

\* int(s) for a str of decimal digits; IsIntLiteral says whether int() accepts.
DigitVal(c) == CHOOSE d \in 0..9 : Digits[d + 1] = c
IsIntLiteral(cs) == cs # <<>> /\ \A i \in 1..Len(cs) : \E d \in 1..10 : Digits[d] = cs[i]
RECURSIVE IntOf(_)
IntOf(cs) == IF cs = <<>> THEN 0
             ELSE 10 * IntOf(SubSeq(cs, 1, Len(cs) - 1)) + DigitVal(cs[Len(cs)])

\* ------------------------------------------------------------ _parse_tags
\* TagEnd with the greedy `.+` in place of `.+?`: the match runs to the last
\* '>' that no newline separates from the '<'.
TagEnd_Greedy(cs, p) ==
    LET qs == {q \in (p + 2)..Len(cs) :
                  cs[q] = ">" /\ \A k \in (p + 1)..(q - 1) : cs[k] # NL}
    IN  IF cs[p] # "<" \/ qs = {} THEN 0
        ELSE CHOOSE q \in qs : \A r \in qs : r <= q

\* re.findall('<(.+?)>'): a match starts at a '<', takes at least one
\* character other than a newline and ends at the first '>' after that.
TagEnd(cs, p) ==
    LET qs == {q \in (p + 2)..Len(cs) : cs[q] = ">"}
    IN  IF cs[p] # "<" \/ qs = {} THEN 0
        ELSE LET q == CHOOSE q \in qs : \A r \in qs : q <= r
             IN  IF \E k \in (p + 1)..(q - 1) : cs[k] = NL THEN 0 ELSE q

RECURSIVE FindAll(_, _)
FindAll(cs, i) ==
    LET ps == {p \in i..Len(cs) : TagEnd(cs, p) # 0}
    IN  IF ps = {} THEN <<>>
        ELSE LET p == CHOOSE p \in ps : \A r \in ps : p <= r
                 q == TagEnd(cs, p)
             IN  <<SubSeq(cs, p + 1, q - 1)>> \o FindAll(cs, q + 1)

\* _parse_tags(tags) for a str argument.
_parse_tags(tags) == IF tags.s = <<>> THEN None ELSE List(FindAll(tags.s, 1))

\* ------------------------------------------------------------ _clean_text
\* _TagStripper.feed followed by get_data (no close()): character data is
\* kept, '<' + letter opens a start tag and '</' an end tag that run to the
\* next '>', an unterminated tag and everything after it stays in the
\* parser's buffer and is lost, and a '<' before anything else is data.
NextGt(cs, i) ==
    LET qs == {q \in i..Len(cs) : cs[q] = ">"}
    IN  IF qs = {} THEN 0 ELSE CHOOSE q \in qs : \A r \in qs : q <= r

RECURSIVE StripFrom(_, _)
StripFrom(cs, i) ==
    IF i > Len(cs) THEN <<>>
    ELSE IF cs[i] # "<" THEN <<cs[i]>> \o StripFrom(cs, i + 1)
    ELSE IF i = Len(cs) THEN <<>>
    ELSE IF cs[i + 1] \in Letters \/ cs[i + 1] = "/"
         THEN LET q == NextGt(cs, i + 1)
              IN  IF q = 0 THEN <<>> ELSE StripFrom(cs, q + 1)
    ELSE <<"<">> \o StripFrom(cs, i + 1)

\* self.newline.sub: every maximal run of newlines becomes one newline
\* (newlines true) or one space (newlines false).
RECURSIVE SubNewlines(_, _)
SubNewlines(cs, rep) ==
    IF cs = <<>> THEN <<>>
    ELSE IF cs[1] # NL THEN <<cs[1]>> \o SubNewlines(Tail(cs), rep)
    ELSE IF Len(cs) > 1 /\ cs[2] = NL THEN SubNewlines(Tail(cs), rep)
    ELSE <<rep>> \o SubNewlines(Tail(cs), rep)

_clean_text(text, newlines) ==
    Str(SubNewlines(StripFrom(text.s, 1), IF newlines THEN NL ELSE " "))

\* ------------------------------------------------ str ordering (max, >)
\* Code-point order of the characters that occur in the modelled strings.
CharOrder == <<NL, " ", "-", "/", "0", "1", "2", "3", "4", "5", "6", "7", "8", "9",
               "<", ">", "C", "E", "L", "T", "a", "b", "p", "r", "x", "z">>
Ord(c) == CHOOSE i \in 1..Len(CharOrder) : CharOrder[i] = c

\* a < b for two character sequences, as Python compares str.
RECURSIVE StrLess(_, _)
StrLess(a, b) ==
    IF b = <<>> THEN FALSE
    ELSE IF a = <<>> THEN TRUE
    ELSE IF a[1] # b[1] THEN Ord(a[1]) < Ord(b[1])
    ELSE StrLess(Tail(a), Tail(b))

\* max(a, b, c) of three str values: the first of the largest.
Max3(a, b, c) ==
    LET ab == IF StrLess(a.s, b.s) THEN b ELSE a
    IN  IF StrLess(ab.s, c.s) THEN c ELSE ab

\* ----------------------------------------------------------- constants
\* self._TYPES (line 92) and its slices.
_TYPES == <<"post_title", "post_body", "post_both", "all_text",
            "comments_both", "comments_body", "tags">>
TypesSlice(a, b) == {_TYPES[i] : i \in a..b}
\* self._resume_keys (line 78)
KeyId == Str(<<"I", "d">>)
KeyDate == Str(<<"D", "a", "t", "e">>)
_resume_keys == {KeyId, KeyDate}
\* default = '2001-01-01' (line 443)
DateDefault == Str(<<"2", "0", "0", "1", "-", "0", "1", "-", "0", "1">>)

\* ------------------------------------------------------- input domains
Date2000 == <<"2", "0", "0", "0", "-", "0", "1", "-", "0", "1">>
Date2010 == <<"2", "0", "1", "0", "-", "0", "1", "-", "0", "1">>
Date2020 == <<"2", "0", "2", "0", "-", "0", "1", "-", "0", "1">>

\* Attribute mappings of <row> elements of a Posts dump.
PostRows ==
    { [Id |-> <<"1">>, PostTypeId |-> <<"1">>, AnswerCount |-> <<"2">>, CommentCount |-> <<"1">>,
       Tags |-> <<"<", "p", ">", "<", "x", ">">>, Title |-> <<"T">>, Body |-> <<"E">>,
       CreationDate |-> Date2010, LastActivityDate |-> Date2020],
      [Id |-> <<"1">>, PostTypeId |-> <<"1">>, AnswerCount |-> <<"1">>,
       Tags |-> <<"<", "x", ">">>, Title |-> <<"T">>, Body |-> <<"<", "b", "r", "/", ">">>],
      [Id |-> <<"3">>, PostTypeId |-> <<"1">>, AnswerCount |-> <<"0">>, CommentCount |-> <<"1">>,
       Tags |-> <<>>, Body |-> <<"<", "p", ">", "E", NL, NL, "E", "<", "/", "p", ">">>],
      [Id |-> <<"3">>, PostTypeId |-> <<"1">>, Tags |-> <<"<", "p", ">">>, Title |-> <<"T">>,
       CreationDate |-> Date2000],
      [Id |-> <<"2">>, PostTypeId |-> <<"2">>, ParentId |-> <<"1">>, Body |-> <<"L">>,
       CreationDate |-> Date2010],
      [Id |-> <<"6">>, PostTypeId |-> <<"2">>, ParentId |-> <<"3">>],
      [Id |-> <<"7">>, PostTypeId |-> <<"3">>, Body |-> <<"E">>, Tags |-> <<"<", "p", ">">>] }

\* Attribute mappings of <row> elements of a Comments dump.
CommentRows ==
    { [Id |-> <<"8">>, PostId |-> <<"1">>, Text |-> <<"C">>, CreationDate |-> Date2010],
      [Id |-> <<"9">>, PostId |-> <<"3">>, Text |-> <<"<", "b", ">">>],
      [Id |-> <<"8">>, PostId |-> <<"4">>, Text |-> <<"C">>],
      [Id |-> <<"9">>, PostId |-> <<"1">>],
      [PostId |-> <<"1">>, Text |-> <<"C">>],
      [Id |-> <<"8">>, Text |-> <<"C">>] }

\* The rows a file handed to the parser for content type ct can hold: the rows
\* of the dump that ct reads, and one row of the other dump (the wrong file).
ForeignPostRow == [Id |-> <<"7">>, PostTypeId |-> <<"3">>, Body |-> <<"E">>, Tags |-> <<"<", "p", ">">>]
ForeignCommentRow == [Id |-> <<"8">>, PostId |-> <<"1">>, Text |-> <<"C">>, CreationDate |-> Date2010]
RowPool(ct) ==
    IF ct \in TypesSlice(1, 4) THEN PostRows \cup {ForeignCommentRow}
    ELSE IF ct \in TypesSlice(5, 6) THEN CommentRows \cup {ForeignPostRow}
    ELSE {ForeignPostRow, ForeignCommentRow}
RootTags == {"posts", "comments"}

\* resume_from accepted by lines 79-81: None, or a dict (the sequence of its
\* items) that is empty or whose first key is one of _resume_keys.
ResumeOptions ==
    { None,
      [d |-> <<>>],
      [d |-> <<Tuple(KeyId, Str(<<"2">>))>>],
      [d |-> <<Tuple(KeyDate, Str(Date2010))>>],
      [d |-> <<Tuple(KeyId, Str(<<"2">>)), Tuple(KeyDate, Str(Date2010))>>] }

\* The preloaded second document (lines 205-239): the children of its root.
Elem(children) == [e |-> children]
CommentTrees ==
    { Elem(<<[Id |-> <<"8">>, PostId |-> <<"1">>, Text |-> <<"C">>],
             [Id |-> <<"9">>, PostId |-> <<"1">>, Text |-> <<"<", "b", ">", "C">>],
             [Id |-> <<"9">>, PostId |-> <<"3">>, Text |-> <<"C">>]>>),
      Elem(<<[Id |-> <<"9">>, PostId |-> <<"1">>]>>) }
PostTrees ==
    { Elem(<<>>),
      Elem(<<[Id |-> <<"1">>, PostTypeId |-> <<"1">>, Tags |-> <<"<", "p", ">", "<", "x", ">">>,
              Title |-> <<"T">>, Body |-> <<"E">>],
             [Id |-> <<"3">>, PostTypeId |-> <<"1">>, Tags |-> <<>>, Body |-> <<"E">>]>>) }
SecondTrees(ct) ==
    IF ct = _TYPES[4] THEN CommentTrees
    ELSE IF ct \in TypesSlice(5, 6) THEN PostTrees
    ELSE {None}

\* self.community: assigned by __init__ only on lines 150 and 192.
NoAttribute == [noattr |-> TRUE]

\* The combinations of onlytags (None or a list of tags after lines 243-245),
\* newlines and community that Init draws: every tag filter with the community
\* attribute set, and no tag filter without it.
Settings ==
    { <<None, TRUE, Str(<<"a">>)>>,
      <<List(<<>>), FALSE, Str(<<"a">>)>>,
      <<List(<<<<"p">>>>), TRUE, Str(<<"a">>)>>,
      <<List(<<<<"z">>, <<"b">>>>), FALSE, Str(<<"a">>)>>,
      <<None, TRUE, NoAttribute>> }

\* ------------------------------------------------------------- state
VARIABLES
    content_type,         \* self.content_type
    onlytags,             \* self.onlytags
    resume_from,          \* self.resume_from
    newlines,             \* self.newlines
    community,            \* self.community, NoAttribute while never assigned
    second_tree,          \* self.second_tree
    total,                \* self.total
    parsed,               \* self.parsed
    parent_post_attribs,  \* self.parent_post_attribs: the pending-parent table
    pc,                   \* generator position: created, loop, yielded, raised, done
    key,                  \* local key of __iter__
    value,                \* local value of __iter__
    err,                  \* the exception that ended the generator
    read,                 \* the (event, element) pairs self.tree has delivered
    cleared,              \* indices into read of the elements clear() was called on
    visits,               \* what the loop body did with each delivered element
    out,                  \* the records handed to the caller by yield
    logs,                 \* number of log(...) calls made by __iter__
    parent_post_tags,     \* StackExchange.parent_post_tags (src/stackExchange.py)
    tag_list,             \* a sequence of tags to be written as a Tags attribute
    encoded,              \* the Tags attribute value made of tag_list
    decoded               \* what _parse_tags returned for encoded

vars == <<content_type, onlytags, resume_from, newlines, community, second_tree,
          total, parsed, parent_post_attribs, pc, key, value, err, read, cleared,
          visits, out, logs, parent_post_tags, tag_list, encoded, decoded>>
codec == <<tag_list, encoded, decoded>>
config == <<content_type, onlytags, resume_from, newlines, community>>

\* The value of a local or of a record field whose line did not run.
NotReached == [unreached |-> TRUE]
NoError == [type |-> "none", line |-> 0]
Error(type, line) == [type |-> type, line |-> line]

\* No tag list is being encoded or decoded.
CodecIdle == tag_list = <<>> /\ encoded = NotReached /\ decoded = NotReached

\* State after __init__ (lines 41-253): the generator object exists
\* (self.iter = iter(self), line 73) and has not run.
Init ==
    /\ content_type \in TypesSlice(1, 7)
    /\ \E st \in Settings :
        /\ onlytags = st[1]
        /\ newlines = st[2]
        /\ community = st[3]
    /\ resume_from \in ResumeOptions
    /\ second_tree \in SecondTrees(content_type)
    /\ total = 0
    /\ parsed = 0
    /\ parent_post_attribs = [k \in {} |-> None]
    /\ pc = "created"
    /\ key = None
    /\ value = None
    /\ err = NoError
    /\ read = <<>>
    /\ cleared = {}
    /\ visits = <<>>
    /\ out = <<>>
    /\ logs = 0
    /\ parent_post_tags = [k \in {} |-> None]
    /\ CodecIdle

\* --------------------------------------------- lines 410-413, line 648
PyFalse == [b |-> FALSE]
\* `self.resume_from is not None or self.resume_from is not False`
ResumeConfigured(rf) == rf # None \/ rf # PyFalse

\* key, value = self.resume_from.items(): None has no items(); a dict's items
\* view unpacks into two targets only when the dict has exactly two items.
ResumeUnpack(rf) ==
    IF ~ResumeConfigured(rf) THEN [err |-> NoError, key |-> None, value |-> None]
    ELSE IF "d" \notin DOMAIN rf
         THEN [err |-> Error("AttributeError", 411), key |-> None, value |-> None]
    ELSE IF Len(rf.d) # 2
         THEN [err |-> Error("ValueError", 411), key |-> None, value |-> None]
    ELSE [err |-> NoError, key |-> rf.d[1], value |-> rf.d[2]]

\* __next__ (lines 405-406) resumes the generator: the first call runs the
\* code before the loop, a call after a yield runs on from the yield to the
\* clear() that ends the loop body (line 648).
NextCall ==
    /\ pc \in {"created", "yielded"}
    /\ IF pc = "created"
       THEN LET u == ResumeUnpack(resume_from)
            IN  /\ key' = u.key
                /\ value' = u.value
                /\ err' = u.err
                /\ pc' = IF u.err = NoError THEN "loop" ELSE "raised"
                /\ UNCHANGED cleared
       ELSE /\ cleared' = cleared \cup {Len(read)}
            /\ pc' = "loop"
            /\ UNCHANGED <<key, value, err>>
    /\ UNCHANGED <<parent_post_tags, codec, config, second_tree, total, parsed, parent_post_attribs, read,
                   visits, out, logs>>

\* --------------------------------------------------- lines 433-451
\* The resume step of a row: TRUE when the row is cleared and skipped.
ResumeSkips(atb, k, v) ==
    IF k = None \/ v = None THEN FALSE
    ELSE IF k = KeyId THEN v # Get(atb, "Id", None)
    ELSE IF k = KeyDate
         THEN LET create == Get(atb, "CreationDate", DateDefault)
                  edit == Get(atb, "LastEditDate", DateDefault)
                  active == Get(atb, "LastActivityDate", DateDefault)
                  item == Max3(create, edit, active)
              IN  StrLess(item.s, v.s)
    ELSE FALSE

\* --------------------------------------------------- lines 478-505
\* `if answers > 0` (line 480): the question gets an entry.
Tracks(answers) == answers > 0
\* Evicts with the comparison off by one.
Evicts_StrictlyGreater(seen, answers) == seen > answers
\* lines 496-497: the entry is deleted.
Evicts(seen, answers) == seen >= answers

Put(table, k, entry) == [x \in DOMAIN table \cup {k} |-> IF x = k THEN entry ELSE table[x]]
Del(table, k) == [x \in DOMAIN table \ {k} |-> table[x]]

\* line 481
ObserveQuestion(table, id, tags, title, answers) ==
    IF Tracks(answers)
    THEN Put(table, id, [tags |-> tags, title |-> title, answers |-> answers, seen |-> 0])
    ELSE table

\* ResolveAnswer without the update of the seen count (line 491).
ResolveAnswer_NoCount(table, parentid) ==
    IF parentid \in DOMAIN table
    THEN LET e == table[parentid]
         IN  [table |-> IF Evicts(e.seen, e.answers) THEN Del(table, parentid) ELSE table,
              tags |-> e.tags, title |-> e.title]
    ELSE [table |-> table, tags |-> None, title |-> None]

\* ResolveAnswer with an entry made for a ParentId that has none.
ResolveAnswer_TracksUnknown(table, parentid) ==
    IF parentid \in DOMAIN table
    THEN LET seen == table[parentid].seen + 1
             e == [table[parentid] EXCEPT !.seen = seen]
         IN  [table |-> IF Evicts(seen, e.answers) THEN Del(table, parentid)
                        ELSE Put(table, parentid, e),
              tags |-> e.tags, title |-> e.title]
    ELSE [table |-> Put(table, parentid, [tags |-> None, title |-> None, answers |-> 2,
                                          seen |-> 1]),
          tags |-> None, title |-> None]

\* lines 486-502: the table after the answer, and the tags and title it resolves.
ResolveAnswer(table, parentid) ==
    IF parentid \in DOMAIN table
    THEN LET seen == table[parentid].seen + 1
             e == [table[parentid] EXCEPT !.seen = seen]
         IN  [table |-> IF Evicts(seen, e.answers) THEN Del(table, parentid)
                        ELSE Put(table, parentid, e),
              tags |-> e.tags, title |-> e.title]
    ELSE [table |-> table, tags |-> None, title |-> None]

\* --------------------------------------------------- lines 507-517, 602-608
\* `tag in self.onlytags` / any([...]) over the row's tags.
AnyTagIn(tags, only) ==
    \E i \in 1..Len(tags.l) :
        /\ \E j \in 1..Len(only.l) : only.l[j] = tags.l[i]
        /\ tags.l[i] # <<>>
\* TagFilterDrops without the second test (lines 515-517).
TagFilterDrops_NoTagsOnly(only, tags) == Truthy(only) /\ ~Truthy(tags)
TagFilterDrops(only, tags) ==
    \/ Truthy(only) /\ ~Truthy(tags)
    \/ Truthy(only) /\ ~AnyTagIn(tags, only)

\* --------------------------------------------------- lines 521-548
Concat(a, b) == Str(a.s \o b.s)
RECURSIVE Join(_, _)
Join(sep, xs) ==
    IF xs = <<>> THEN <<>>
    ELSE IF Len(xs) = 1 THEN xs[1]
    ELSE xs[1] \o sep \o Join(sep, Tail(xs))

\* lines 525-532 and 535-542
TitleAndBody(title, body) ==
    IF Truthy(title) /\ Truthy(body) THEN Concat(Concat(title, Str(<<NL>>)), body)
    ELSE IF Truthy(body) /\ ~Truthy(title) THEN body
    ELSE IF Truthy(title) /\ ~Truthy(body) THEN title
    ELSE None

\* `self.content_type in 'post_both'` (line 534) is a substring test.
SubstringsOfPostBoth == {"post_both"}

\* The text of a post, or the TypeError of str + None on line 523.
\* post_comments is None or the list of comment texts found for the post.
PostText(ct, title, body, post_comments) ==
    IF ct = "all_text"
    THEN IF Truthy(post_comments)
         THEN IF IsNone(title) \/ IsNone(body) THEN Error("TypeError", 523)
              ELSE Concat(Concat(Concat(title, Str(<<NL>>)), body),
                          Str(Join(<<NL>>, post_comments.l)))
         ELSE TitleAndBody(title, body)
    ELSE IF ct \in SubstringsOfPostBoth THEN TitleAndBody(title, body)
    ELSE IF ct = "post_title" THEN title
    ELSE body

\* '{}'.format(v) for None or a str
Format(v) == IF IsNone(v) THEN <<"N", "o", "n", "e">> ELSE v.s

\* int(atb.get(k, 0)) (lines 465-466): the number, or -1 when int() raises.
IntAttr(atb, k) ==
    IF k \notin DOMAIN atb THEN 0
    ELSE IF IsIntLiteral(atb[k]) THEN IntOf(atb[k]) ELSE -1

IsError(x) == "type" \in DOMAIN x

\* What the loop body did with one element: kind is resume_skip, type_skip,
\* tag_drop, text_skip (the four `child.clear(); continue` exits), container,
\* break, raise or yield; tab says whether the table step (lines 478-502) ran;
\* html is the assembled text (info['html'], lines 552 and 619) and text the
\* cleaned text (lines 556 and 627), NotReached when the line did not run.
Result(kind, e, table, p, tab, h, c, info, second) ==
    [kind |-> kind, err |-> e, table |-> table, parsed |-> p, tab |-> tab,
     html |-> h, text |-> c, info |-> info, second |-> second]

\* --------------------------------------------------- lines 453-582
\* The loop body for a row that passed the resume step, when the content type
\* is one of _TYPES[:4].  ev is the event name bound to `_`.
PostsRow(atb, ev, table, p, second, ct, only, nl, com) ==
    LET early(type, line) ==
            Result("raise", Error(type, line), table, p, FALSE, NotReached, NotReached,
                   None, second)
        id == Get(atb, "Id", None)
        title0 == Get(atb, "Title", None)
        body == Get(atb, "Body", None)
        tags0 == Get(atb, "Tags", None)
        tags1 == IF tags0 # None THEN _parse_tags(tags0) ELSE None
    IN
    IF com = NoAttribute THEN early("AttributeError", 456)
    ELSE IF "PostTypeId" \notin DOMAIN atb THEN early("TypeError", 464)
    ELSE IF ~IsIntLiteral(atb.PostTypeId) THEN early("ValueError", 464)
    ELSE IF IntAttr(atb, "AnswerCount") < 0 THEN early("ValueError", 465)
    ELSE IF IntAttr(atb, "CommentCount") < 0 THEN early("ValueError", 466)
    ELSE
    LET posttype == IntOf(atb.PostTypeId)
        answers == IntAttr(atb, "AnswerCount")
        comments == IntAttr(atb, "CommentCount")
        lookup == ct = "all_text" /\ comments > 0
        found == IF lookup
                 THEN SelectSeq(second.e, LAMBDA c : "PostId" \in DOMAIN c /\ c.PostId = Format(id))
                 ELSE <<>>
    IN
    IF \E i \in 1..Len(found) : "Text" \notin DOMAIN found[i]
    THEN early("KeyError", 471)
    ELSE
    LET post_comments == IF lookup THEN List([i \in 1..Len(found) |-> found[i].Text]) ELSE None
    IN
    IF posttype \notin {1, 2}
    THEN Result("type_skip", NoError, table, p, FALSE, NotReached, NotReached, None, second)
    ELSE
    LET parentid == IF posttype = 2 THEN Get(atb, "ParentId", None) ELSE None
        res == IF posttype = 1
               THEN [table |-> ObserveQuestion(table, id, tags1, title0, answers),
                     tags |-> tags1, title |-> title0]
               ELSE ResolveAnswer(table, parentid)
    IN
    IF TagFilterDrops(only, res.tags)
    THEN Result("tag_drop", NoError, res.table, p, TRUE, NotReached, NotReached, None, second)
    ELSE
    LET text == PostText(ct, res.title, body, post_comments)
        late(type, line, n, h, c) ==
            Result("raise", Error(type, line), res.table, n, TRUE, h, c, None, second)
    IN
    IF IsError(text) THEN late(text.type, text.line, p, NotReached, NotReached)
    ELSE IF IsNone(text) THEN late("TypeError", 556, p, text, NotReached)
    ELSE
    LET cleantext == _clean_text(text, nl)
    IN
    IF IsNone(id) THEN late("TypeError", 560, p, text, cleantext)
    ELSE IF ~IsIntLiteral(id.s) THEN late("ValueError", 560, p, text, cleantext)
    ELSE IF posttype = 2 /\ IsNone(parentid) THEN late("TypeError", 564, p, text, cleantext)
    ELSE IF posttype = 2 /\ ~IsIntLiteral(parentid.s) THEN late("ValueError", 564, p, text, cleantext)
    ELSE
    LET meta == IF posttype = 2
                THEN [Id |-> IntOf(id.s), ParentTitle |-> res.title, ParentTags |-> res.tags,
                      ParentId |-> IntOf(parentid.s), CommentCount |-> comments,
                      CreationDate |-> Get(atb, "CreationDate", None),
                      LastEditDate |-> Get(atb, "LastEditDate", None),
                      LastActivityDate |-> Get(atb, "LastActivityDate", None)]
                ELSE [Id |-> IntOf(id.s), Title |-> res.title, Tags |-> res.tags,
                      CommentCount |-> comments,
                      CreationDate |-> Get(atb, "CreationDate", None),
                      LastEditDate |-> Get(atb, "LastEditDate", None),
                      LastActivityDate |-> Get(atb, "LastActivityDate", None)]
        info == [html |-> text, text |-> cleantext, meta |-> meta]
    IN
    IF PercentRaises(ev) THEN late("TypeError", 580, p + 1, text, cleantext)
    ELSE Result("yield", NoError, res.table, p + 1, TRUE, text, cleantext, info, second)

\* --------------------------------------------------- lines 584-642
EmptyAttrib == [x \in {} |-> <<>>]
\* Element.find("*[@Id='...']"): index of the first child with that Id, or 0.
FindById(children, v) ==
    LET hits == {i \in 1..Len(children) : "Id" \in DOMAIN children[i] /\ children[i].Id = v}
    IN  IF hits = {} THEN 0 ELSE CHOOSE i \in hits : \A j \in hits : i <= j

\* The loop body for a row that passed the resume step, when the content type
\* is one of _TYPES[4:6].
CommentsRow(atb, ev, table, p, second, ct, only, nl, com) ==
    LET raise(type, line, n, sec, h, c) ==
            Result("raise", Error(type, line), table, n, FALSE, h, c, None, sec)
        id == Get(atb, "Id", None)
        postid == Get(atb, "PostId", None)
        body == Get(atb, "Text", None)
        \* `if self.second_tree:` is true for an element that has children
        has == second # None /\ second.e # <<>>
        at == IF has THEN FindById(second.e, Format(postid)) ELSE 0
    IN
    IF com = NoAttribute THEN raise("AttributeError", 586, p, second, NotReached, NotReached)
    ELSE IF has /\ at = 0 THEN raise("AttributeError", 593, p, second, NotReached, NotReached)
    ELSE
    LET parent == IF has THEN second.e[at] ELSE EmptyAttrib
        ptags0 == Get(parent, "Tags", Str(<<>>))
        parent_tags == IF ~has THEN None
                       ELSE IF Truthy(ptags0) THEN _parse_tags(ptags0) ELSE ptags0
        parent_title == IF ~has THEN None ELSE Get(parent, "Title", Str(<<>>))
        \* parent.clear() (line 597)
        sec == IF has THEN Elem([second.e EXCEPT ![at] = EmptyAttrib]) ELSE second
    IN
    IF TagFilterDrops(only, parent_tags)
    THEN Result("tag_drop", NoError, table, p, FALSE, NotReached, NotReached, None, sec)
    ELSE IF ct = "comments_both" /\ Truthy(parent_title) /\ IsNone(body)
         THEN raise("TypeError", 613, p, sec, NotReached, NotReached)
    ELSE
    LET text == IF ct = "comments_both" /\ Truthy(parent_title)
                THEN Concat(Concat(parent_title, Str(<<NL>>)), body)
                ELSE body
    IN
    IF IsNone(text)
    THEN Result("text_skip", NoError, table, p, FALSE, text, NotReached, None, sec)
    ELSE
    LET cleantext == _clean_text(text, nl)
    IN
    IF IsNone(id) THEN raise("TypeError", 631, p, sec, text, cleantext)
    ELSE IF ~IsIntLiteral(id.s) THEN raise("ValueError", 631, p, sec, text, cleantext)
    ELSE IF IsNone(postid) THEN raise("TypeError", 632, p, sec, text, cleantext)
    ELSE IF ~IsIntLiteral(postid.s) THEN raise("ValueError", 632, p, sec, text, cleantext)
    ELSE
    LET info == [html |-> text, text |-> cleantext,
                 meta |-> [Id |-> IntOf(id.s), PostId |-> IntOf(postid.s),
                           CreationDate |-> Get(atb, "CreationDate", None),
                           PostTitle |-> parent_title, PostTags |-> parent_tags]]
    IN
    IF PercentRaises(ev) THEN raise("TypeError", 640, p + 1, sec, text, cleantext)
    ELSE Result("yield", NoError, table, p + 1, FALSE, text, cleantext, info, sec)

\* --------------------------------------------------- lines 431-451, 644-645
\* The loop body for a <row> element.
RowBody(atb, ev, table, p, second, ct, only, nl, com, k, v) ==
    IF ResumeSkips(atb, k, v)
    THEN Result("resume_skip", NoError, table, p, FALSE, NotReached, NotReached, None, second)
    ELSE IF ct \in TypesSlice(1, 4) THEN PostsRow(atb, ev, table, p, second, ct, only, nl, com)
    ELSE IF ct \in TypesSlice(5, 6) THEN CommentsRow(atb, ev, table, p, second, ct, only, nl, com)
    ELSE Result("break", NoError, table, p, FALSE, NotReached, NotReached, None, second)

\* ------------------------------------------------------------ the loop
\* ET.iterparse(..., events=['end']) (lines 206, 215, 222, 236) delivers the
\* rows in document order and the root element last.
Events == {"end"}
Delivered(i) == read[i].elem
RowsRead == Cardinality({i \in 1..Len(read) : Delivered(i).tag = "row"})
Eof == read # <<>> /\ Delivered(Len(read)).tag # "row"
Continues == {"resume_skip", "type_skip", "tag_drop", "text_skip", "container"}

\* One pass of the loop body (lines 416-648) over the next row of the file,
\* a file whose rows are rows of pool.
Visit(pool) ==
    /\ pc = "loop"
    /\ ~Eof
    /\ RowsRead < MaxRows
    /\ \E atb \in pool, ev \in Events :
        LET r == RowBody(atb, ev, parent_post_attribs, parsed, second_tree,
                         content_type, onlytags, newlines, community, key, value)
            n == Len(read) + 1
        IN  /\ read' = Append(read, [ev |-> ev, elem |-> [tag |-> "row", attrib |-> atb]])
            /\ total' = total + 1
            /\ logs' = logs + 1
            /\ parent_post_attribs' = r.table
            /\ second_tree' = r.second
            /\ parsed' = r.parsed
            /\ visits' = Append(visits, [kind |-> r.kind, tab |-> r.tab, html |-> r.html,
                                         text |-> r.text, err |-> r.err])
            /\ err' = r.err
            /\ out' = IF r.kind = "yield" THEN Append(out, r.info) ELSE out
            /\ cleared' = IF r.kind \in Continues THEN cleared \cup {n} ELSE cleared
            /\ pc' = IF r.kind \in Continues THEN "loop"
                     ELSE IF r.kind = "yield" THEN "yielded"
                     ELSE IF r.kind = "raise" THEN "raised"
                     ELSE "done"
    /\ UNCHANGED <<parent_post_tags, codec, config, key, value>>

\* The loop body over the next row of a Posts or Comments dump.
VisitRow == Visit(RowPool(content_type))

\* lines 421-429: the check of a container element.
ContainerError(ct, tag) ==
    IF ct \in TypesSlice(1, 4) /\ tag # "posts" THEN Error("AssertionError", 424)
    ELSE IF ct \in TypesSlice(5, 6) /\ tag # "comments" THEN Error("AssertionError", 428)
    ELSE NoError

\* One pass of the loop body over the root element, whose end event follows
\* the end events of all its rows.
VisitRoot ==
    /\ pc = "loop"
    /\ ~Eof
    /\ \E tag \in RootTags, ev \in Events :
        LET e == ContainerError(content_type, tag)
            n == Len(read) + 1
        IN  /\ read' = Append(read, [ev |-> ev, elem |-> [tag |-> tag, attrib |-> EmptyAttrib]])
            /\ total' = total + 1
            /\ logs' = logs + 1
            /\ err' = e
            /\ visits' = Append(visits, [kind |-> IF e = NoError THEN "container" ELSE "raise",
                                         tab |-> FALSE, html |-> NotReached,
                                         text |-> NotReached, err |-> e])
            /\ cleared' = IF e = NoError THEN cleared \cup {n} ELSE cleared
            /\ pc' = IF e = NoError THEN "loop" ELSE "raised"
    /\ UNCHANGED <<parent_post_tags, codec, config, key, value, second_tree, parsed, parent_post_attribs, out>>

\* self.tree is exhausted: the for loop ends and the generator returns.
Exhaust ==
    /\ pc = "loop"
    /\ Eof
    /\ pc' = "done"
    /\ UNCHANGED <<parent_post_tags, codec, config, key, value, second_tree, total, parsed, parent_post_attribs,
                   err, read, cleared, visits, out, logs>>

\* iter(parser) / `for record in parser` (line 408): calling __iter__ makes a
\* new generator over the same self.tree, counters and table; the model follows
\* the newest generator.  A caller does this after the previous generator ended
\* in an exception or while it is suspended at a yield, while the file has
\* elements left.
Iter ==
    /\ pc \in {"raised", "yielded"}
    /\ ~Eof
    /\ pc' = "created"
    /\ key' = None
    /\ value' = None
    /\ err' = NoError
    /\ UNCHANGED <<parent_post_tags, codec, config, second_tree, total, parsed, parent_post_attribs, read,
                   cleared, visits, out, logs>>

Next == NextCall \/ VisitRow \/ VisitRoot \/ Exhaust \/ Iter

Spec == Init /\ [][Next]_vars

\* =========================================== the documented example
\* A Posts dump whose rows are the question and the answer of the end-to-end
\* example, read with content type post_body and onlytags = ['python'].
TagPython == <<"p", "y", "t", "h", "o", "n">>
TagXml == <<"x", "m", "l">>
ExampleQuestion ==
    [Id |-> <<"1">>, PostTypeId |-> <<"1">>, AnswerCount |-> <<"1">>,
     Tags |-> <<"<">> \o TagPython \o <<">", "<">> \o TagXml \o <<">">>,
     Title |-> <<"H", "o", "w", "?">>, Body |-> <<"E", "x", "p", "l", "a", "i", "n">>]
ExampleAnswer ==
    [Id |-> <<"2">>, PostTypeId |-> <<"2">>, ParentId |-> <<"1">>,
     Body |-> <<"L", "i", "k", "e", " ", "t", "h", "i", "s">>]
ExampleRows == {ExampleQuestion, ExampleAnswer}

\* State after __init__ (lines 41-253) for the example's arguments, with the
\* community attribute set.
ExampleInit ==
    /\ content_type = "post_body"
    /\ onlytags = List(<<TagPython>>)
    /\ newlines \in BOOLEAN
    /\ community = Str(<<"a">>)
    /\ resume_from \in ResumeOptions
    /\ second_tree = None
    /\ total = 0
    /\ parsed = 0
    /\ parent_post_attribs = [k \in {} |-> None]
    /\ pc = "created"
    /\ key = None
    /\ value = None
    /\ err = NoError
    /\ read = <<>>
    /\ cleared = {}
    /\ visits = <<>>
    /\ out = <<>>
    /\ logs = 0
    /\ parent_post_tags = [k \in {} |-> None]
    /\ CodecIdle

\* The loop body over the next row of the example's dump.
VisitExampleRow == Visit(ExampleRows)

ExampleNext == NextCall \/ VisitExampleRow \/ VisitRoot \/ Exhaust \/ Iter

ExampleSpec == ExampleInit /\ [][ExampleNext]_vars

\* =========================================== class StackExchange
\* StackExchange.__iter__ (src/stackExchange.py), the earlier reader of the
\* same dumps.  It shares _parse_tags, the tag stripper and the tag filter
\* with StackExchangeParser and keeps its table in parent_post_tags.

\* self._TYPES of StackExchange (line 62) and its slices.
StackExchange_TYPES == <<"post_title", "post_body", "post_both", "comments">>
StackExchangeSlice(a, b) == {StackExchange_TYPES[i] : i \in a..b}

\* onlytags (lines 72-74, default []) and newlines that StackExchangeInit draws.
StackExchangeSettings ==
    { <<List(<<>>), TRUE>>,
      <<List(<<<<"p">>>>), TRUE>>,
      <<List(<<<<"z">>, <<"b">>>>), FALSE>> }

\* State after StackExchange.__init__ (lines 32-82).  The fields that only
\* StackExchangeParser has keep the values of an object that has none.
StackExchangeInit ==
    /\ content_type \in StackExchangeSlice(1, 4)
    /\ \E st \in StackExchangeSettings :
        /\ onlytags = st[1]
        /\ newlines = st[2]
    /\ community = Str(<<"a">>)
    /\ resume_from = None
    /\ second_tree = None
    /\ key = None
    /\ value = None
    /\ parent_post_attribs = [k \in {} |-> None]
    /\ parent_post_tags = [k \in {} |-> None]
    /\ total = 0
    /\ parsed = 0
    /\ pc = "created"
    /\ err = NoError
    /\ read = <<>>
    /\ cleared = {}
    /\ visits = <<>>
    /\ out = <<>>
    /\ logs = 0
    /\ CodecIdle

\* lines 140-160: the table after an answer, and the tags it resolves.
\* `if parent:` holds for every entry, a dict of three items.
StackExchangeResolve(table, parentid) ==
    IF parentid \in DOMAIN table
    THEN LET e == table[parentid]
             seen == IF e.seen < e.answers THEN e.seen + 1 ELSE e.seen
         IN  [table |-> IF seen = e.answers THEN Del(table, parentid)
                        ELSE Put(table, parentid, [e EXCEPT !.seen = seen]),
              tags |-> e.tags]
    ELSE [table |-> table, tags |-> None]

\* lines 116-229: the else branch of the loop body, run for the start and the
\* end event of a row and for the end event of the root.  kind is tag_drop or
\* text_skip (the `continue` exits, which skip the clear() of line 232),
\* raise or yield.
StackExchangeRow(atb, table, p, ct, only, nl) ==
    LET res(kind, e, t, n, tab, h, c, info) ==
            [kind |-> kind, err |-> e, table |-> t, parsed |-> n, tab |-> tab,
             html |-> h, text |-> c, info |-> info]
    IN
    IF ct \in StackExchangeSlice(1, 3)
    THEN LET Id == Get(atb, "Id", None)
             title == Get(atb, "Title", None)
             body == Get(atb, "Body", None)
             tags0 == Get(atb, "Tags", None)
             tags1 == IF tags0 # None THEN _parse_tags(tags0) ELSE None
             posttype == Get(atb, "PostTypeId", None)
             create == Get(atb, "CreationDate", None)
             answers == IntAttr(atb, "AnswerCount")
         IN
         IF answers < 0
         THEN res("raise", Error("ValueError", 131), table, p, FALSE, NotReached, NotReached, None)
         ELSE
         LET step == IF posttype = Str(<<"1">>)
                     THEN [table |-> IF answers > 0
                                     THEN Put(table, Id, [tags |-> tags1, answers |-> answers,
                                                          seen |-> 0])
                                     ELSE table,
                           tags |-> tags1]
                     ELSE IF posttype = Str(<<"2">>)
                     THEN StackExchangeResolve(table, Get(atb, "ParentId", None))
                     ELSE [table |-> table, tags |-> tags1]
         IN
         IF TagFilterDrops(only, step.tags)
         THEN res("tag_drop", NoError, step.table, p, TRUE, NotReached, NotReached, None)
         ELSE
         LET text == IF ct = "post_both" THEN TitleAndBody(title, body)
                     ELSE IF ct = "post_title" THEN title
                     ELSE body
         IN
         IF IsNone(text)
         THEN res("text_skip", NoError, step.table, p, TRUE, text, NotReached, None)
         ELSE
         LET cleantext == _clean_text(text, nl)
         IN  res("yield", NoError, step.table, p + 1, TRUE, text, cleantext,
                 [html |-> text, text |-> cleantext,
                  meta |-> [ID |-> Id, Date |-> create, Tags |-> step.tags]])
    ELSE LET text == Get(atb, "Text", None)
         IN
         IF IsNone(text)
         THEN res("text_skip", NoError, table, p, FALSE, text, NotReached, None)
         \* line 222 reads Id, a local that only the Posts branch assigns
         ELSE res("raise", Error("UnboundLocalError", 222), table, p, FALSE, text,
                  _clean_text(text, nl), None)

\* lines 107-114: the check of the root element at its start event.
StackExchangeContainerError(ct, tag) ==
    IF ct \in StackExchangeSlice(1, 3) /\ tag # "posts" THEN Error("AssertionError", 109)
    ELSE IF ct \notin StackExchangeSlice(1, 3) /\ tag # "comments"
         THEN Error("AssertionError", 113)
    ELSE NoError

\* ET.iterparse(..., events=['start', 'end']) (line 68): the start event of the
\* root, then for each row its start and its end event, then the end event of
\* the root.  An end event delivers the object its start event delivered, so
\* its attributes are gone when clear() was called on it in between.
StartsRead == Cardinality({i \in 1..Len(read) : read[i].ev = "start" /\ read[i].elem.tag = "row"})
StackExchangeEof ==
    /\ read # <<>>
    /\ read[Len(read)].ev = "end"
    /\ read[Len(read)].elem.tag # "row"
NextEvents(pool) ==
    IF read = <<>>
    THEN {[ev |-> "start", elem |-> [tag |-> t, attrib |-> EmptyAttrib]] : t \in RootTags}
    ELSE LET last == read[Len(read)]
         IN  IF last.ev = "start" /\ last.elem.tag = "row"
             THEN {[ev |-> "end",
                    elem |-> [tag |-> "row",
                              attrib |-> IF Len(read) \in cleared THEN EmptyAttrib
                                         ELSE last.elem.attrib]]}
             ELSE {[ev |-> "start", elem |-> [tag |-> "row", attrib |-> atb]] :
                       atb \in IF StartsRead < MaxRows THEN pool ELSE {}}
                  \cup {[ev |-> "end", elem |-> [tag |-> read[1].elem.tag, attrib |-> EmptyAttrib]]}

\* The rows of the file handed to StackExchange for content type ct.
StackExchangePool(ct) ==
    IF ct \in StackExchangeSlice(1, 3) THEN PostRows \cup {ForeignCommentRow}
    ELSE CommentRows \cup {ForeignPostRow}

\* The fields of a StackExchangeParser that a StackExchange does not have.
parser_only == <<resume_from, second_tree, key, value, parent_post_attribs>>

\* next() on the generator of StackExchange.__iter__: the first call enters
\* the loop, a call after a yield runs on to the clear() of line 232.
StackExchangeResume ==
    /\ pc \in {"created", "yielded"}
    /\ cleared' = IF pc = "yielded" THEN cleared \cup {Len(read)} ELSE cleared
    /\ pc' = "loop"
    /\ UNCHANGED <<parser_only, codec, content_type, onlytags, newlines, community, total,
                   parsed, parent_post_tags, err, read, visits, out, logs>>

\* One pass of the loop body over the start event of the root (lines 104-114, 232).
StackExchangeCheckRoot ==
    /\ pc = "loop"
    /\ ~StackExchangeEof
    /\ \E e \in NextEvents(StackExchangePool(content_type)) :
        /\ e.ev = "start"
        /\ e.elem.tag # "row"
        /\ LET ce == StackExchangeContainerError(content_type, e.elem.tag)
               n == Len(read) + 1
           IN  /\ read' = Append(read, e)
               /\ total' = total + 1
               /\ logs' = logs + 1
               /\ err' = ce
               /\ visits' = Append(visits, [kind |-> IF ce = NoError THEN "container" ELSE "raise",
                                            tab |-> FALSE, html |-> NotReached,
                                            text |-> NotReached, err |-> ce])
               /\ cleared' = IF ce = NoError THEN cleared \cup {n} ELSE cleared
               /\ pc' = IF ce = NoError THEN "loop" ELSE "raised"
    /\ UNCHANGED <<parser_only, codec, content_type, onlytags, newlines, community, parsed,
                   parent_post_tags, out>>

\* One pass of the loop body over any other event (lines 104-105, 116-229): the
\* start or the end event of a row, or the end event of the root.
StackExchangeVisit ==
    /\ pc = "loop"
    /\ ~StackExchangeEof
    /\ \E e \in NextEvents(StackExchangePool(content_type)) :
        /\ ~(e.ev = "start" /\ e.elem.tag # "row")
        /\ LET r == StackExchangeRow(e.elem.attrib, parent_post_tags, parsed, content_type,
                                     onlytags, newlines)
           IN  /\ read' = Append(read, e)
               /\ total' = total + 1
               /\ logs' = logs + (IF r.kind = "yield" THEN 2 ELSE 1)
               /\ parent_post_tags' = r.table
               /\ parsed' = r.parsed
               /\ err' = r.err
               /\ visits' = Append(visits, [kind |-> r.kind, tab |-> r.tab, html |-> r.html,
                                            text |-> r.text, err |-> r.err])
               /\ out' = IF r.kind = "yield" THEN Append(out, r.info) ELSE out
               /\ pc' = IF r.kind = "yield" THEN "yielded"
                        ELSE IF r.kind = "raise" THEN "raised"
                        ELSE "loop"
    /\ UNCHANGED <<parser_only, codec, content_type, onlytags, newlines, community, cleared>>

\* self.tree is exhausted: the for loop ends and the generator returns.
StackExchangeExhaust ==
    /\ pc = "loop"
    /\ StackExchangeEof
    /\ pc' = "done"
    /\ UNCHANGED <<parser_only, codec, content_type, onlytags, newlines, community, total,
                   parsed, parent_post_tags, err, read, cleared, visits, out, logs>>

StackExchangeNext ==
    StackExchangeResume \/ StackExchangeCheckRoot \/ StackExchangeVisit \/ StackExchangeExhaust

StackExchangeSpec == StackExchangeInit /\ [][StackExchangeNext]_vars

\* =========================================== _parse_tags on its own
\* The Tags attribute of a dump row is its tags, each between '<' and '>'.
\* _parse_tags is applied to the attribute value made of a list of tags.
MaxTags == 3          \* longest list of tags
TagStrings == {<<>>, <<"a">>, <<"b">>, <<"a", "b">>, <<"a", NL>>}
RECURSIVE SeqsUpTo(_, _)
SeqsUpTo(S, n) ==
    IF n = 0 THEN {<<>>}
    ELSE LET shorter == SeqsUpTo(S, n - 1)
         IN  shorter \cup {Append(xs, x) : xs \in {ys \in shorter : Len(ys) = n - 1}, x \in S}
RECURSIVE Brackets(_)
Brackets(xs) == IF xs = <<>> THEN <<>> ELSE <<"<">> \o xs[1] \o <<">">> \o Brackets(Tail(xs))

\* A parser object on which __iter__ never runs, and a Tags value to parse.
ParseTagsInit ==
    /\ content_type = _TYPES[7]
    /\ onlytags = None
    /\ newlines = TRUE
    /\ community = NoAttribute
    /\ resume_from = None
    /\ second_tree = None
    /\ total = 0
    /\ parsed = 0
    /\ parent_post_attribs = [k \in {} |-> None]
    /\ pc = "created"
    /\ key = None
    /\ value = None
    /\ err = NoError
    /\ read = <<>>
    /\ cleared = {}
    /\ visits = <<>>
    /\ out = <<>>
    /\ logs = 0
    /\ parent_post_tags = [k \in {} |-> None]
    /\ tag_list \in SeqsUpTo(TagStrings, MaxTags)
    /\ encoded = Str(Brackets(tag_list))
    /\ decoded = NotReached

\* self._parse_tags(tags) (lines 390-403) on the encoded value.
ParseTags ==
    /\ decoded = NotReached
    /\ decoded' = _parse_tags(encoded)
    /\ UNCHANGED <<config, second_tree, total, parsed, parent_post_attribs, pc, key, value,
                   err, read, cleared, visits, out, logs, parent_post_tags, tag_list, encoded>>

ParseTagsNext == ParseTags

ParseTagsSpec == ParseTagsInit /\ [][ParseTagsNext]_vars

\* ============================================================ properties
\* History accessors: element i of the stream and what the loop did with it.
IsRow(i) == Delivered(i).tag = "row"
Atb(i) == Delivered(i).attrib
Rows == {i \in 1..Len(read) : IsRow(i)}
PostType(atb) == IF "PostTypeId" \in DOMAIN atb /\ IsIntLiteral(atb.PostTypeId)
                 THEN IntOf(atb.PostTypeId) ELSE 0
\* Rows on which the table step ran as a question / as an answer.
Questions == {i \in Rows : visits[i].tab /\ PostType(Atb(i)) = 1}
Answers == {i \in Rows : visits[i].tab /\ PostType(Atb(i)) = 2}
SetOf(xs) == {xs[i] : i \in 1..Len(xs)}
TagSet(v) == IF IsList(v) THEN SetOf(v.l) ELSE {}

\* C1: an answer row whose ParentId has an entry in the table when the row is
\* processed, with no tag filter configured, is emitted, with meta ParentTags
\* and ParentTitle equal to the tags and title held by that entry.
C1_AnswerWithEntryEmitted ==
    [][ LET n == Len(read')
            atb == read'[n].elem.attrib
            pid == Get(atb, "ParentId", None)
        IN  ( /\ n = Len(read) + 1
              /\ read'[n].elem.tag = "row"
              /\ visits'[n].tab
              /\ PostType(atb) = 2
              /\ pid \in DOMAIN parent_post_attribs
              /\ ~Truthy(onlytags) )
            => ( /\ Len(out') = Len(out) + 1
                 /\ out'[Len(out')].meta.ParentTags = parent_post_attribs[pid].tags
                 /\ out'[Len(out')].meta.ParentTitle = parent_post_attribs[pid].title )
      ]_vars

\* C2: every entry of the pending-parent table has answers > 0 and
\* 0 <= seen < answers, and was created by a question row whose AnswerCount is
\* that positive number.
C2_EntriesOpen ==
    \A k \in DOMAIN parent_post_attribs :
        LET e == parent_post_attribs[k]
        IN  /\ e.answers > 0
            /\ 0 <= e.seen
            /\ e.seen < e.answers
            /\ \E i \in Questions : /\ Get(Atb(i), "Id", None) = k
                                    /\ IntAttr(Atb(i), "AnswerCount") = e.answers

\* An entry that has counted an answer exists, while a processed question with
\* AnswerCount 0 or no AnswerCount has no entry.
C2_Witness ==
    /\ \E k \in DOMAIN parent_post_attribs : parent_post_attribs[k].seen >= 1
    /\ \E i \in Questions : /\ IntAttr(Atb(i), "AnswerCount") = 0
                            /\ Get(Atb(i), "Id", None) \notin DOMAIN parent_post_attribs

\* The last question row processed with Id k (0 when there is none), and the
\* number of answer rows with ParentId k processed after row j.
LastQuestion(k) ==
    LET qs == {i \in Questions : Get(Atb(i), "Id", None) = k}
    IN  IF qs = {} THEN 0 ELSE CHOOSE i \in qs : \A j \in qs : j <= i
AnswersSince(k, j) ==
    Cardinality({i \in Answers : i > j /\ Get(Atb(i), "ParentId", None) = k})

C4_NoResumeNoError ==
    resume_from = None =>
        /\ err.line # 411
        /\ \A i \in 1..Len(visits) : visits[i].kind # "resume_skip"

\* The tags the filter is to look at: a question's own Tags, for an answer the
\* tags of its parent's entry, for a comment the Tags of its parent post.
FilterTags(atb, table, second) ==
    IF content_type \in TypesSlice(1, 4)
    THEN IF PostType(atb) = 1
         THEN IF "Tags" \in DOMAIN atb THEN SetOf(FindAll(atb.Tags, 1)) ELSE {}
         ELSE LET pid == Get(atb, "ParentId", None)
              IN  IF pid \in DOMAIN table THEN TagSet(table[pid].tags) ELSE {}
    ELSE IF second = None \/ second.e = <<>> THEN {}
    ELSE LET at == FindById(second.e, Format(Get(atb, "PostId", None)))
         IN  IF at # 0 /\ "Tags" \in DOMAIN second.e[at]
             THEN SetOf(FindAll(second.e[at].Tags, 1)) ELSE {}
\* The loop body got as far as the tag-filter step (lines 511-517, 602-608).
ReachedFilter(v) ==
    \/ v.kind \in {"tag_drop", "text_skip", "yield"}
    \/ v.kind = "raise" /\ v.err.line \in {523, 556, 560, 564, 580, 613, 631, 632, 640}

C6_EmptyTextDropped ==
    /\ \A i \in 1..Len(visits) : visits[i].text = Str(<<>>) => visits[i].kind \in Continues
    /\ \A i \in 1..Len(out) : out[i].text # Str(<<>>)

\* C7: a row for which the content-type policy yields no text (the assembled
\* text is None) is skipped without an error and without counting as parsed.
C7_NoTextSkipped ==
    \A i \in 1..Len(visits) : visits[i].html = None => visits[i].kind \in Continues

\* C8: the error for a root element that does not match the content type is
\* raised at the first element delivered, before any row was visited and
\* before any record was emitted.
C8_RootMismatchImmediate ==
    (pc = "raised" /\ err.type = "AssertionError") => (Len(read) = 1 /\ out = <<>>)

\* resume_from = {Id: v} and resume_from = {Date: v}
IsIdResume == "d" \in DOMAIN resume_from /\ Len(resume_from.d) = 1 /\ resume_from.d[1].t[1] = KeyId
IsDateResume == "d" \in DOMAIN resume_from /\ Len(resume_from.d) = 1 /\ resume_from.d[1].t[1] = KeyDate
ResumeValue == resume_from.d[1].t[2]

\* C9: with resume_from = {Id: v} the iteration runs, skips every row before
\* the first row whose Id is v, and skips no row from that row on.
C9_IdResume ==
    IsIdResume =>
        /\ err.line # 411
        /\ LET hits == {i \in Rows : Get(Atb(i), "Id", None) = ResumeValue}
               first == IF hits = {} THEN Len(read) + 1
                        ELSE CHOOSE i \in hits : \A j \in hits : i <= j
           IN  \A i \in Rows : (visits[i].kind = "resume_skip") <=> (i < first)

\* C10: with resume_from = {Date: v} the iteration runs and skips a row if and
\* only if v is greater than the largest of the row's CreationDate,
\* LastEditDate and LastActivityDate, each defaulting to 2001-01-01.
C10_DateResume ==
    IsDateResume =>
        /\ err.line # 411
        /\ \A i \in Rows :
              LET item == Max3(Get(Atb(i), "CreationDate", DateDefault),
                               Get(Atb(i), "LastEditDate", DateDefault),
                               Get(Atb(i), "LastActivityDate", DateDefault))
              IN  (visits[i].kind = "resume_skip") <=> StrLess(item.s, ResumeValue.s)

\* The attributes row element i has in the file: an end event that follows the
\* start event of its row delivers the object of that start event.
RowAttrib(i) ==
    IF i > 1 /\ read[i].ev = "end" /\ read[i - 1].ev = "start" /\ read[i - 1].elem.tag = "row"
    THEN read[i - 1].elem.attrib
    ELSE read[i].elem.attrib
PostsTypes == {"post_title", "post_body", "post_both", "all_text"}

\* C11: when the source is Posts, no record is emitted for a row whose
\* PostTypeId is neither 1 nor 2.
C11_OtherTypesSkipped ==
    \A i \in Rows :
        ( /\ content_type \in PostsTypes
          /\ "PostTypeId" \in DOMAIN RowAttrib(i)
          /\ PostType(RowAttrib(i)) \notin {1, 2} )
        => visits[i].kind # "yield"

\* C12: an answer row whose ParentId has no entry in the table when the row is
\* processed, with no tag filter configured and a content type that takes its
\* text from the Body the row has, is emitted without an error, with meta
\* ParentTags and ParentTitle absent.
C12_AnswerWithoutEntryEmitted ==
    [][ LET n == Len(read')
            atb == read'[n].elem.attrib
        IN  ( /\ n = Len(read) + 1
              /\ read'[n].elem.tag = "row"
              /\ visits'[n].tab
              /\ PostType(atb) = 2
              /\ Get(atb, "ParentId", None) \notin DOMAIN parent_post_attribs
              /\ ~Truthy(onlytags)
              /\ content_type \in {"post_body", "post_both"}
              /\ Truthy(Get(atb, "Body", None)) )
            => ( /\ err' = NoError
                 /\ Len(out') = Len(out) + 1
                 /\ out'[Len(out')].meta.ParentTags = None
                 /\ out'[Len(out')].meta.ParentTitle = None )
      ]_vars

\* C13: processing an answer row whose ParentId is not a key of the table
\* leaves the table as it was, keys and entries, and the lookup (lines
\* 485-502) raises no error.
C13_UnknownParentFrame ==
    [][ LET n == Len(read')
            atb == read'[n].elem.attrib
        IN  ( /\ n = Len(read) + 1
              /\ read'[n].elem.tag = "row"
              /\ content_type \in PostsTypes
              /\ PostType(atb) = 2
              /\ Get(atb, "ParentId", None) \notin DOMAIN parent_post_attribs )
            => ( /\ parent_post_attribs' = parent_post_attribs
                 /\ err'.line \notin 485..502 )
      ]_vars

\* The last row is an answer that went through the lookup, no question with
\* its ParentId ever got an entry, and the table holds another question.
C13_Witness ==
    /\ Len(read) \in Answers
    /\ Get(Atb(Len(read)), "ParentId", None) \notin
           {Get(Atb(i), "Id", None) : i \in {j \in Questions : IntAttr(Atb(j), "AnswerCount") > 0}}
    /\ DOMAIN parent_post_attribs # {}

\* C14: when Comments are parsed with a preloaded Posts tree, a comment row
\* that gets to the parent lookup and whose PostId matches no post of the tree
\* raises no error, and is emitted with PostTitle and PostTags absent unless a
\* configured tag filter drops it.
C14_CommentWithoutPostRecovered ==
    [][ LET n == Len(read')
            atb == read'[n].elem.attrib
        IN  ( /\ n = Len(read) + 1
              /\ read'[n].elem.tag = "row"
              /\ content_type \in TypesSlice(5, 6)
              /\ community # NoAttribute
              /\ visits'[n].kind # "resume_skip"
              /\ second_tree # None
              /\ second_tree.e # <<>>
              /\ "Text" \in DOMAIN atb
              /\ "PostId" \in DOMAIN atb
              /\ FindById(second_tree.e, Format(Get(atb, "PostId", None))) = 0 )
            => ( /\ err' = NoError
                 /\ \/ Truthy(onlytags) /\ visits'[n].kind = "tag_drop"
                    \/ /\ Len(out') = Len(out) + 1
                       /\ ~Truthy(out'[Len(out')].meta.PostTitle)
                       /\ ~Truthy(out'[Len(out')].meta.PostTags) )
      ]_vars

\* The title and the body the text of a post row is assembled from: the row's
\* Body, and the row's Title for a question, the title held by the entry of
\* its ParentId for an answer.
TitleOf(atb, table) ==
    IF PostType(atb) = 2
    THEN LET pid == Get(atb, "ParentId", None)
         IN  IF pid \in DOMAIN table THEN table[pid].title ELSE None
    ELSE Get(atb, "Title", None)
BodyOf(atb) == Get(atb, "Body", None)
\* The loop body got past the tag-filter step to the text assembly.
Assembles(v) == ReachedFilter(v) /\ v.kind # "tag_drop"

\* C15: under post_both the text assembled for a row that passed the filter is
\* title, newline, body when both are present, the present one when only one
\* is, and when neither is present the row is dropped: no record, no error.
C15_PostBoth ==
    [][ LET n == Len(read')
            atb == read'[n].elem.attrib
            title == TitleOf(atb, parent_post_attribs)
            body == BodyOf(atb)
        IN  ( /\ n = Len(read) + 1
              /\ read'[n].elem.tag = "row"
              /\ content_type = "post_both"
              /\ Assembles(visits'[n]) )
            => IF Truthy(title) /\ Truthy(body)
               THEN visits'[n].html = Str(title.s \o <<NL>> \o body.s)
               ELSE IF Truthy(title) THEN visits'[n].html = title
               ELSE IF Truthy(body) THEN visits'[n].html = body
               ELSE /\ visits'[n].kind \in Continues
                    /\ out' = out
                    /\ err' = NoError
      ]_vars

\* The title+body rule as a sequence of characters, empty when neither is present.
TitleBodyRule(title, body) ==
    IF Truthy(title) /\ Truthy(body) THEN title.s \o <<NL>> \o body.s
    ELSE IF Truthy(title) THEN title.s
    ELSE IF Truthy(body) THEN body.s
    ELSE <<>>
\* The texts of the comments the preloaded Comments tree holds for post id.
CommentsOf(second, id) ==
    LET found == SelectSeq(second.e, LAMBDA c : "PostId" \in DOMAIN c /\ c.PostId = Format(id))
    IN  [i \in 1..Len(found) |-> found[i].Text]

\* C16: under all_text the text assembled for a post that passed the filter
\* and has comments in the preloaded Comments tree (and a CommentCount above
\* 0) is the result of the title+body rule followed by the comment texts
\* joined by newlines, also when its title or its body is absent, and the
\* assembly raises no error.
C16_AllText ==
    [][ LET n == Len(read')
            atb == read'[n].elem.attrib
            title == TitleOf(atb, parent_post_attribs)
            body == BodyOf(atb)
            cs == CommentsOf(second_tree, Get(atb, "Id", None))
        IN  ( /\ n = Len(read) + 1
              /\ read'[n].elem.tag = "row"
              /\ content_type = "all_text"
              /\ Assembles(visits'[n])
              /\ IntAttr(atb, "CommentCount") > 0
              /\ cs # <<>> )
            => ( /\ err'.line # 523
                 /\ visits'[n].html = Str(TitleBodyRule(title, body) \o Join(<<NL>>, cs)) )
      ]_vars

\* C17: once the question and then the answer of the example have been
\* processed, exactly two records have been emitted: the first with text
\* "Explain" and no tags in its meta, the second with text "Like this" and
\* ParentTags [python, xml]; and the table is empty.
C17_EndToEnd ==
    ( /\ Len(read) \in {2, 3}
      /\ Atb(1) = ExampleQuestion
      /\ Atb(2) = ExampleAnswer
      /\ Len(read) = 3 => ~IsRow(3) )
    => ( /\ Len(out) = 2
         /\ out[1].text = Str(ExampleQuestion.Body)
         /\ out[1].meta.Tags = None
         /\ out[2].text = Str(ExampleAnswer.Body)
         /\ out[2].meta.ParentTags = List(<<TagPython, TagXml>>)
         /\ parent_post_attribs = [k \in {} |-> None] )

\* A tag that is not empty and has no '<', no '>' and no newline in it.
IsPlainTag(t) == t # <<>> /\ \A i \in 1..Len(t) : t[i] \notin {"<", ">", NL}

\* C18 as stated: for every list of tags without '<' and '>', _parse_tags of
\* the concatenation of '<' + tag + '>' over the list returns that list.
C18_LeftInverse ==
    decoded # NotReached => decoded = List(tag_list)

\* C18: for every non-empty list of non-empty tags without '<', '>' and
\* newline, _parse_tags of the concatenation of '<' + tag + '>' over the list
\* returns that list, in order and with duplicates; for the empty list, whose
\* encoding is the empty string, it returns None.
C18_LeftInverseOfPlainTags ==
    decoded # NotReached =>
        /\ (tag_list # <<>> /\ \A i \in 1..Len(tag_list) : IsPlainTag(tag_list[i]))
               => decoded = List(tag_list)
        /\ tag_list = <<>> => decoded = None

\* A list of three plain tags with a duplicate has been decoded.
C18_Witness ==
    /\ decoded = List(<<<<"a", "b">>, <<"a">>, <<"a", "b">>>>)
    /\ tag_list = <<<<"a", "b">>, <<"a">>, <<"a", "b">>>>

C20_RowProcessedOnce ==
    [][ LET n == Len(read')
        IN  ( /\ n = Len(read) + 1
              /\ n > 1
              /\ read'[n].elem.tag = "row"
              /\ read'[n].ev = "end"
              /\ read[n - 1].elem.tag = "row"
              /\ read[n - 1].ev = "start" )
            => ( /\ parent_post_tags' = parent_post_tags
                 /\ parent_post_attribs' = parent_post_attribs
                 /\ out' = out )
      ]_vars

\* C21: every element the loop has moved past was released: when the next
\* element is read, clear() has been called on each element read before it
\* whose pass of the loop body did not end in an exception (skipped by the
\* resume filter, skipped for its post type, dropped by the tag filter, dropped
\* for lack of text, emitted as a record, or a container element).
C21_ReleasedBeforeNext ==
    \A i \in 1..(Len(read) - 1) :
        (Len(visits) >= i /\ visits[i].kind # "raise") => i \in cleared

\* C22: in every state of the iteration the total counter is the number of
\* elements read so far and the parsed counter is the number of records handed
\* to the caller so far, so that parsed <= total.
C22_Counters ==
    /\ total = Len(read)
    /\ parsed = Len(out)
    /\ parsed <= total

\* The period of the progress message of lines 580-581 and 640-641.
LogEvery == 10000

\* C23: the logging sink has received one call per element read and one more
\* per LogEvery records parsed, and no pass of the loop body was ended by the
\* progress step that follows the admission of a record (lines 580, 640).
C23_Logging ==
    /\ logs = total + (parsed \div LogEvery)
    /\ \A i \in 1..Len(visits) : visits[i].err.line \notin {580, 640}

\* The first item of a non-empty resume_from, the item that lines 79-81 check.
HasResumeItem == "d" \in DOMAIN resume_from /\ resume_from.d # <<>>
ResumeItem == resume_from.d[1].t

RECURSIVE StackExchangeReplay(_, _, _, _, _)
StackExchangeReplay(i, table, released, ct, only) ==
    IF i > Len(read) THEN table
    ELSE IF read[i].ev = "start" /\ read[i].elem.tag # "row"
    THEN IF StackExchangeContainerError(ct, read[i].elem.tag) # NoError THEN table
         ELSE StackExchangeReplay(i + 1, table, TRUE, ct, only)
    ELSE LET atb == IF read[i].ev = "end" /\ read[i].elem.tag = "row" /\ released
                    THEN EmptyAttrib
                    ELSE RowAttrib(i)
             r == StackExchangeRow(atb, table, 0, ct, only, TRUE)
         IN  IF r.kind = "raise" THEN r.table
             ELSE StackExchangeReplay(i + 1, r.table, r.kind = "yield", ct, only)

\* C25: the pending-parent table after any prefix of a Posts file is the table
\* that every other Posts content type and every other onlytags leave after
\* the same prefix.
C25_TableIndependent ==
    content_type \in StackExchangeSlice(1, 3) =>
        \A ct \in StackExchangeSlice(1, 3), st \in StackExchangeSettings :
            parent_post_tags = StackExchangeReplay(1, [k \in {} |-> None], FALSE, ct, st[1])

\* The pass over row i looked its parent post up in the preloaded Posts tree
\* and went on past line 593.
Resolved(i) ==
    /\ visits[i].kind # "resume_skip"
    /\ visits[i].err.line \notin {586, 593}

\* C26: when Comments are read with a preloaded Posts tree, a comment row
\* whose PostId is the PostId of an earlier comment row that was resolved is
\* resolved against that parent post too: its lookup (lines 592-593) finds
\* the post.
C26_SameParent ==
    content_type \in TypesSlice(5, 6) =>
        \A i \in Rows, j \in Rows :
            ( /\ i < j
              /\ "PostId" \in DOMAIN Atb(i)
              /\ "PostId" \in DOMAIN Atb(j)
              /\ Atb(i).PostId = Atb(j).PostId
              /\ Resolved(i) )
            => visits[j].err.line # 593

====
